---- MODULE Spec2Model ----
(***************************************************************************)
(* cs::UnlimitedHandleResource<THandle, TStruct, typeValue, TMutex> and    *)
(* cs::StaticUnlimitedHandleResource (src/src/UnlimitedHandleResource.h).  *)
(*                                                                         *)
(* One table instance, called concurrently by the threads of Threads.      *)
(* Every member function is split at the points where another thread can   *)
(* interleave: the call (with the lock-free decode of Get and Free), the   *)
(* acquisition of m_handleMutex, and every iteration of a scan loop.       *)
(* pc[t] is the source line thread t is about to execute.                  *)
(***************************************************************************)
EXTENDS Integers, Sequences, FiniteSets

\* ------------------------------------------------------------------ bounds
\* THandle::kIndexMax (0xffff for the handle types of the library).
kIndexMax == 2
\* Number of distinct TStruct objects a behaviour may construct.
MaxRes == 3

\* ------------------------------------------------------- program constants
\* The template parameter typeValue: the type tag of this table.
typeValue == 1
\* A type tag of another table.
otherType == typeValue + 1
\* The type tag of the handle value-initialised from the integer 0.
kUndefined == 0

Threads == {"t1", "t2", "t3"}
NoThread == "none"

\* budget[t] of a thread that calls without end.
Unbounded == 0 - 1
\* The calls each thread makes where two threads call: as many as the table
\* has slots.
MaxCalls == kIndexMax

\* An empty std::shared_ptr.
nullptr == 0
\* The value of a member function returning void.
void == "void"

VARIABLES
    m_structures,   \* std::vector<std::shared_ptr<TStruct>>, indexed from 0
    m_handleMutex,  \* the thread holding the mutex, or NoThread
    pc,             \* pc[t]: "idle" or the line thread t executes next
    i,              \* i[t]: the local size_t i of Allocate and GetAll
    index,          \* index[t]: the local index of Get and Free
    structure,      \* structure[t]: the argument of Allocate(shared_ptr)
    handle,         \* handle[t]: the argument of Get and Free
    handles,        \* handles[t]: what GetAll has pushed to its argument
    ret,            \* ret[t]: how t's last call returned (the line of the
                    \* return statement, the call's argument, the value),
                    \* as its caller sees it until it makes its next call
    budget,         \* budget[t]: the calls thread t may still make
    nextRes,        \* the next object std::make_shared will create
    issued,         \* issued[k]: structures installed by the calls that
                    \* returned a handle of index k since the last Free of k
    recycled,       \* the indices given out again after a Free of them
    highWater,      \* the largest number of slots ever occupied at once
    held,           \* held[t]: the shared_ptr t keeps from its last Get
    use_count,      \* use_count[s]: the shared_ptrs that own object s
    m_instance,     \* StaticUnlimitedHandleResource: the atomic pointer to
                    \* the instance, nullptr before the first use
    m_instance_mutex, \* the thread holding the mutex of the instance
    tmp,            \* tmp[t]: the local pointer of GetInstance
    instances       \* instances[n]: whether the constructor of the n-th
                    \* object created by GetInstance has finished

\* The record of what the table has given out.
hist == <<issued, recycled, highWater>>

\* The ownership of the objects.
refs == <<held, use_count>>

instVars == <<m_instance, m_instance_mutex, tmp, instances>>

tableVars == <<m_structures, m_handleMutex, i, index, structure, handle,
               handles, nextRes, issued, recycled, highWater, held,
               use_count>>

vars == <<m_structures, m_handleMutex, pc, i, index, structure, handle,
          handles, ret, budget, nextRes, issued, recycled,
          highWater, held, use_count, m_instance,
          m_instance_mutex, tmp, instances>>

\* ----------------------------------------------------------------- handles
\* THandle(int index, Type type).
Handle(idx, type) == [index |-> idx, type |-> type]

\* THandle converted from the integer 0 ("return 0").
NullHandle == Handle(0, kUndefined)

\* int THandle::GetTypedIndex(Type type): the index, or -1 on another type.
GetTypedIndex(h, type) == IF h.type = type THEN h.index ELSE -1

MakeHandle(k) == Handle(k, typeValue)

\* The handles a caller may present: any index up to kIndexMax (one past
\* the largest slot), of this table's type or another, and the null handle.
CallerHandles ==
    {Handle(k, ty) : k \in 0..kIndexMax, ty \in {typeValue, otherType}}
        \cup {NullHandle}

\* ------------------------------------------------------------ vector access
Size == Len(m_structures)
\* m_structures[k], k counted from 0.
At(k) == m_structures[k + 1]
\* m_structures[k] = v.
Store(k, v) == [m_structures EXCEPT ![k + 1] = v]
\* m_structures.emplace_back(v) / push_back(v).
PushBack(v) == Append(m_structures, v)

Occupied == {k \in 0..(Size - 1) : At(k) # nullptr}

Outstanding ==
    LET RECURSIVE Sum(_)
        Sum(k) == IF k < 0 THEN 0 ELSE Len(issued[k]) + Sum(k - 1)
    IN Sum(kIndexMax)

\* ---------------------------------------------------------------- the lock
\* std::lock_guard<TMutex> sync(m_handleMutex): blocks until the mutex is free.
Lock(t) ==
    /\ m_handleMutex = NoThread
    /\ m_handleMutex' = t

\* ~lock_guard on return.
Unlock(t) == m_handleMutex' = NoThread

\* No call has returned yet, or the next call is under way.
NoReturn == [line |-> 0, arg |-> void, val |-> void]

\* Thread t returns value from the return statement at line; arg is the
\* argument its call was given. The locals of the call are gone.
Return(t, line, arg, value) ==
    /\ pc' = [pc EXCEPT ![t] = "idle"]
    /\ ret' = [ret EXCEPT ![t] = [line |-> line, arg |-> arg, val |-> value]]
    /\ i' = [i EXCEPT ![t] = 0]
    /\ index' = [index EXCEPT ![t] = 0]
    /\ structure' = [structure EXCEPT ![t] = nullptr]
    /\ handle' = [handle EXCEPT ![t] = NullHandle]
    /\ handles' = [handles EXCEPT ![t] = <<>>]

\* Thread t makes one more call.
Spend(t) ==
    /\ budget[t] # 0
    /\ budget' = [budget EXCEPT ![t] = IF @ = Unbounded THEN @ ELSE @ - 1]

\* Thread t, idle, calls a member function whose first statement is label.
Enter(t, label) ==
    /\ Spend(t)
    /\ pc[t] = "idle"
    /\ pc' = [pc EXCEPT ![t] = label]
    /\ ret' = [ret EXCEPT ![t] = NoReturn]

\* One shared_ptr more (d = 1) or one less (d = -1) owns the object of s.
Count(s, d) ==
    IF s = nullptr THEN use_count ELSE [use_count EXCEPT ![s] = @ + d]

\* std::make_shared<TStruct>(...): the new object has one owner.
MakeShared(s) ==
    /\ use_count' = [use_count EXCEPT ![s] = 1]
    /\ UNCHANGED held

\* m_structures[k].reset(): the slot owns its object no longer.
Reset(k) ==
    /\ use_count' = Count(At(k), -1)
    /\ UNCHANGED held

\* Thread t lets go of the pointer it kept from Get.
Drop(t) ==
    /\ use_count' = Count(held[t], -1)
    /\ held' = [held EXCEPT ![t] = nullptr]

\* The handle of index k was given out for structure s.
\* The slot existed and no handle of it was out: it had been freed.
Issue(k, s) ==
    /\ issued' = [issued EXCEPT ![k] = Append(@, s)]
    /\ recycled' = IF k < Size /\ issued[k] = <<>>
                   THEN recycled \cup {k}
                   ELSE recycled
    /\ highWater' =
           LET n == Cardinality({j \in 1..Len(m_structures') :
                                    m_structures'[j] # nullptr})
           IN IF n > highWater THEN n ELSE highWater

\* Free has reset slot k: the handles of index k are no longer out.
Release(k) ==
    /\ issued' = [issued EXCEPT ![k] = <<>>]
    /\ UNCHANGED <<recycled, highWater>>

\* ------------------------------------------------- Allocate(Args&&... args)
\* The threads inside the constructing overload: each will call
\* std::make_shared at most once.
Constructing == {u \in Threads : pc[u] \in {"L70", "L72"}}

AllocateCall(t) ==
    /\ Enter(t, "L70")
    /\ nextRes + Cardinality(Constructing) <= MaxRes
    /\ Drop(t)
    /\ UNCHANGED <<m_structures, m_handleMutex, i, index, structure, handle,
                   handles, nextRes, hist>>
    /\ UNCHANGED instVars

\* AllocateLock with the scan started at index 1.
AllocateLock_FromOne(t) ==
    /\ pc[t] = "L70"
    /\ Lock(t)
    /\ pc' = [pc EXCEPT ![t] = "L72"]
    /\ i' = [i EXCEPT ![t] = 1]
    /\ UNCHANGED <<m_structures, index, structure, handle, handles, ret,
                   budget, nextRes, hist, refs>>
    /\ UNCHANGED instVars

\* lines 70-71: take the lock, start the scan.
AllocateLock(t) ==
    /\ pc[t] = "L70"
    /\ Lock(t)
    /\ pc' = [pc EXCEPT ![t] = "L72"]
    /\ i' = [i EXCEPT ![t] = 0]
    /\ UNCHANGED <<m_structures, index, structure, handle, handles, ret,
                   budget, nextRes, hist, refs>>
    /\ UNCHANGED instVars

\* lines 72-76: one iteration of the scan.
AllocateScan(t) ==
    /\ pc[t] = "L72"
    /\ i[t] < Size
    /\ IF At(i[t]) = nullptr
       THEN /\ m_structures' = Store(i[t], nextRes)
            /\ nextRes' = nextRes + 1
            /\ Issue(i[t], nextRes)
            /\ MakeShared(nextRes)
            /\ Return(t, 75, void, MakeHandle(i[t]))
            /\ Unlock(t)
            /\ UNCHANGED budget
       ELSE /\ i' = [i EXCEPT ![t] = i[t] + 1]
            /\ UNCHANGED <<m_structures, m_handleMutex, pc, index, structure,
                           handle, handles, ret, budget, nextRes, hist, refs>>
    /\ UNCHANGED instVars

\* AllocateGrow that gives up one slot before kIndexMax.
AllocateGrow_Early(t) ==
    /\ pc[t] = "L72"
    /\ ~(i[t] < Size)
    /\ IF i[t] + 1 >= kIndexMax
       THEN /\ Return(t, 78, void, NullHandle)
            /\ UNCHANGED <<m_structures, nextRes, hist, refs>>
       ELSE /\ m_structures' = PushBack(nextRes)
            /\ nextRes' = nextRes + 1
            /\ Issue(i[t], nextRes)
            /\ MakeShared(nextRes)
            /\ Return(t, 82, void, MakeHandle(i[t]))
    /\ Unlock(t)
    /\ UNCHANGED budget
    /\ UNCHANGED instVars

\* AllocateGrow with the bound tested by > in place of >=.
AllocateGrow_OffByOne(t) ==
    /\ pc[t] = "L72"
    /\ ~(i[t] < Size)
    /\ IF i[t] > kIndexMax
       THEN /\ Return(t, 78, void, NullHandle)
            /\ UNCHANGED <<m_structures, nextRes, hist, refs>>
       ELSE /\ m_structures' = PushBack(nextRes)
            /\ nextRes' = nextRes + 1
            /\ Issue(i[t], nextRes)
            /\ MakeShared(nextRes)
            /\ Return(t, 82, void, MakeHandle(i[t]))
    /\ Unlock(t)
    /\ UNCHANGED budget
    /\ UNCHANGED instVars

\* lines 78-82: the scan found no empty slot.
AllocateGrow(t) ==
    /\ pc[t] = "L72"
    /\ ~(i[t] < Size)
    /\ IF i[t] >= kIndexMax
       THEN /\ Return(t, 78, void, NullHandle)
            /\ UNCHANGED <<m_structures, nextRes, hist, refs>>
       ELSE /\ m_structures' = PushBack(nextRes)
            /\ nextRes' = nextRes + 1
            /\ Issue(i[t], nextRes)
            /\ MakeShared(nextRes)
            /\ Return(t, 82, void, MakeHandle(i[t]))
    /\ Unlock(t)
    /\ UNCHANGED budget
    /\ UNCHANGED instVars

\* --------------------------------- Allocate(std::shared_ptr<...> structure)
\* The parameter is declared std::shared_ptr<THandle> (line 87) and assigned
\* to a slot, a std::shared_ptr<TStruct>: the overload exists where the one
\* converts to the other, and installs the pointer it is given.
\* The number of handles given out, and not freed, whose slot is empty or
\* has been given out again.
EmptyHandles == Outstanding - Cardinality(Occupied)

\* The shared pointers thread t can pass: an empty one, one to an object it
\* has just constructed, or the one it keeps from its last Get.
CallerStructures(t) == {nullptr, nextRes, held[t]}

\* The callers pass an empty pointer only while every handle they hold is the
\* handle of an occupied slot.
AllocateRefCall(t, s) ==
    /\ Enter(t, "L88")
    /\ s \in CallerStructures(t)
    /\ s = nullptr => EmptyHandles = 0
    /\ s = nextRes => nextRes + Cardinality(Constructing) <= MaxRes
    /\ nextRes' = IF s = nextRes THEN nextRes + 1 ELSE nextRes
    /\ structure' = [structure EXCEPT ![t] = s]
    /\ use_count' = IF s = nextRes
                    THEN [Count(held[t], -1) EXCEPT ![s] = 1]
                    ELSE IF s = nullptr THEN Count(held[t], -1) ELSE use_count
    /\ held' = [held EXCEPT ![t] = nullptr]
    /\ UNCHANGED <<m_structures, m_handleMutex, i, index, handle, handles,
                   hist>>
    /\ UNCHANGED instVars

\* lines 88-89.
AllocateRefLock(t) ==
    /\ pc[t] = "L88"
    /\ Lock(t)
    /\ pc' = [pc EXCEPT ![t] = "L90"]
    /\ i' = [i EXCEPT ![t] = 0]
    /\ UNCHANGED <<m_structures, index, structure, handle, handles, ret,
                   budget, nextRes, hist, refs>>
    /\ UNCHANGED instVars

\* lines 90-94.
AllocateRefScan(t) ==
    /\ pc[t] = "L90"
    /\ i[t] < Size
    /\ IF At(i[t]) = nullptr
       THEN /\ m_structures' = Store(i[t], structure[t])
            /\ Issue(i[t], structure[t])
            /\ UNCHANGED refs
            /\ Return(t, 93, structure[t], MakeHandle(i[t]))
            /\ Unlock(t)
            /\ UNCHANGED budget
       ELSE /\ i' = [i EXCEPT ![t] = i[t] + 1]
            /\ UNCHANGED <<m_structures, m_handleMutex, pc, index, structure,
                           handle, handles, ret, budget, hist, refs>>
    /\ UNCHANGED nextRes
    /\ UNCHANGED instVars

\* AllocateRefGrow with the bound tested after the push_back.
AllocateRefGrow_PushFirst(t) ==
    /\ pc[t] = "L90"
    /\ ~(i[t] < Size)
    /\ m_structures' = PushBack(structure[t])
    /\ IF i[t] >= kIndexMax
       THEN /\ Return(t, 96, structure[t], NullHandle)
            /\ UNCHANGED <<hist, refs>>
       ELSE /\ Issue(i[t], structure[t])
            /\ UNCHANGED refs
            /\ Return(t, 99, structure[t], MakeHandle(i[t]))
    /\ Unlock(t)
    /\ UNCHANGED budget
    /\ UNCHANGED nextRes
    /\ UNCHANGED instVars

\* lines 96-99.
AllocateRefGrow(t) ==
    /\ pc[t] = "L90"
    /\ ~(i[t] < Size)
    /\ IF i[t] >= kIndexMax
       THEN /\ Return(t, 96, structure[t], NullHandle)
            /\ use_count' = Count(structure[t], -1)
            /\ UNCHANGED <<m_structures, hist, held>>
       ELSE /\ m_structures' = PushBack(structure[t])
            /\ Issue(i[t], structure[t])
            /\ UNCHANGED refs
            /\ Return(t, 99, structure[t], MakeHandle(i[t]))
    /\ Unlock(t)
    /\ UNCHANGED budget
    /\ UNCHANGED nextRes
    /\ UNCHANGED instVars

\* ------------------------------------------------------ Get(THandle handle)
\* GetCall with the index decoded without a look at the type tag.
GetCall_AnyType(t, h) ==
    /\ Spend(t)
    /\ pc[t] = "idle"
    /\ pc' = [pc EXCEPT ![t] = "L108"]
    /\ handle' = [handle EXCEPT ![t] = h]
    /\ index' = [index EXCEPT ![t] = h.index]
    /\ ret' = [ret EXCEPT ![t] = NoReturn]
    /\ UNCHANGED <<i, structure, handles>>
    /\ Drop(t)
    /\ UNCHANGED <<m_structures, m_handleMutex, nextRes, hist>>
    /\ UNCHANGED instVars

\* lines 105-107: decode without the lock; a negative index returns at once.
GetCall(t, h) ==
    /\ Spend(t)
    /\ pc[t] = "idle"
    /\ LET idx == GetTypedIndex(h, typeValue) IN
       IF idx < 0
       THEN Return(t, 107, h, nullptr)
       ELSE /\ pc' = [pc EXCEPT ![t] = "L108"]
            /\ handle' = [handle EXCEPT ![t] = h]
            /\ index' = [index EXCEPT ![t] = idx]
            /\ ret' = [ret EXCEPT ![t] = NoReturn]
            /\ UNCHANGED <<i, structure, handles>>
    /\ Drop(t)
    /\ UNCHANGED <<m_structures, m_handleMutex, nextRes, hist>>
    /\ UNCHANGED instVars

\* line 108.
GetLock(t) ==
    /\ pc[t] = "L108"
    /\ Lock(t)
    /\ pc' = [pc EXCEPT ![t] = "L109"]
    /\ UNCHANGED <<m_structures, i, index, structure, handle, handles, ret,
                   budget, nextRes, hist, refs>>
    /\ UNCHANGED instVars

\* GetBody that returns from line 110 with the mutex still locked.
GetBody_KeepLock(t) ==
    /\ pc[t] = "L109"
    /\ IF index[t] >= Size
       THEN /\ Return(t, 110, handle[t], nullptr)
            /\ UNCHANGED <<refs, m_handleMutex>>
       ELSE /\ Return(t, 111, handle[t], At(index[t]))
            /\ use_count' = Count(At(index[t]), 1)
            /\ held' = [held EXCEPT ![t] = At(index[t])]
            /\ Unlock(t)
    /\ UNCHANGED budget
    /\ UNCHANGED <<m_structures, nextRes, hist>>
    /\ UNCHANGED instVars

\* GetBody that moves the pointer out of the slot.
GetBody_Move(t) ==
    /\ pc[t] = "L109"
    /\ IF index[t] >= Size
       THEN /\ Return(t, 110, handle[t], nullptr)
            /\ UNCHANGED <<m_structures, refs>>
       ELSE /\ Return(t, 111, handle[t], At(index[t]))
            /\ m_structures' = Store(index[t], nullptr)
            /\ held' = [held EXCEPT ![t] = At(index[t])]
            /\ UNCHANGED use_count
    /\ Unlock(t)
    /\ UNCHANGED budget
    /\ UNCHANGED <<nextRes, hist>>
    /\ UNCHANGED instVars

\* GetBody with a check that the index has not been given out again.
GetBody_Generation(t) ==
    /\ pc[t] = "L109"
    /\ IF index[t] >= Size \/ index[t] \in recycled
       THEN /\ Return(t, 110, handle[t], nullptr)
            /\ UNCHANGED refs
       ELSE /\ Return(t, 111, handle[t], At(index[t]))
            /\ use_count' = Count(At(index[t]), 1)
            /\ held' = [held EXCEPT ![t] = At(index[t])]
    /\ Unlock(t)
    /\ UNCHANGED budget
    /\ UNCHANGED <<m_structures, nextRes, hist>>
    /\ UNCHANGED instVars

\* lines 109-111.
GetBody(t) ==
    /\ pc[t] = "L109"
    /\ IF index[t] >= Size
       THEN /\ Return(t, 110, handle[t], nullptr)
            /\ UNCHANGED refs
       ELSE /\ Return(t, 111, handle[t], At(index[t]))
            /\ use_count' = Count(At(index[t]), 1)
            /\ held' = [held EXCEPT ![t] = At(index[t])]
    /\ Unlock(t)
    /\ UNCHANGED budget
    /\ UNCHANGED <<m_structures, nextRes, hist>>
    /\ UNCHANGED instVars

\* ----------------------------------------------------- Free(THandle handle)
\* lines 117-119.
FreeCall(t, h) ==
    /\ Spend(t)
    /\ pc[t] = "idle"
    /\ LET idx == GetTypedIndex(h, typeValue) IN
       IF idx < 0
       THEN Return(t, 119, h, void)
       ELSE /\ pc' = [pc EXCEPT ![t] = "L120"]
            /\ handle' = [handle EXCEPT ![t] = h]
            /\ index' = [index EXCEPT ![t] = idx]
            /\ ret' = [ret EXCEPT ![t] = NoReturn]
            /\ UNCHANGED <<i, structure, handles>>
    /\ UNCHANGED <<m_structures, m_handleMutex, nextRes, hist, refs>>
    /\ UNCHANGED instVars

\* line 120.
FreeLock(t) ==
    /\ pc[t] = "L120"
    /\ Lock(t)
    /\ pc' = [pc EXCEPT ![t] = "L121"]
    /\ UNCHANGED <<m_structures, i, index, structure, handle, handles, ret,
                   budget, nextRes, hist, refs>>
    /\ UNCHANGED instVars

\* FreeBody without the reset of the slot.
FreeBody_NoReset(t) ==
    /\ pc[t] = "L121"
    /\ IF index[t] >= Size
       THEN /\ Return(t, 121, handle[t], void)
            /\ UNCHANGED <<m_structures, hist, refs>>
       ELSE /\ UNCHANGED m_structures
            /\ Release(index[t])
            /\ UNCHANGED refs
            /\ Return(t, 123, handle[t], void)
    /\ Unlock(t)
    /\ UNCHANGED budget
    /\ UNCHANGED nextRes
    /\ UNCHANGED instVars

\* FreeBody that drops the last slot of the array when it frees it.
FreeBody_Shrink(t) ==
    /\ pc[t] = "L121"
    /\ IF index[t] >= Size
       THEN /\ Return(t, 121, handle[t], void)
            /\ UNCHANGED <<m_structures, hist, refs>>
       ELSE /\ m_structures' = IF index[t] = Size - 1
                               THEN SubSeq(m_structures, 1, Size - 1)
                               ELSE Store(index[t], nullptr)
            /\ Release(index[t])
            /\ Reset(index[t])
            /\ Return(t, 123, handle[t], void)
    /\ Unlock(t)
    /\ UNCHANGED budget
    /\ UNCHANGED nextRes
    /\ UNCHANGED instVars

\* FreeBody that leaves alone an index that has been given out again.
FreeBody_Generation(t) ==
    /\ pc[t] = "L121"
    /\ IF index[t] >= Size \/ index[t] \in recycled
       THEN /\ Return(t, 121, handle[t], void)
            /\ UNCHANGED <<m_structures, hist, refs>>
       ELSE /\ m_structures' = Store(index[t], nullptr)
            /\ Release(index[t])
            /\ Reset(index[t])
            /\ Return(t, 123, handle[t], void)
    /\ Unlock(t)
    /\ UNCHANGED budget
    /\ UNCHANGED nextRes
    /\ UNCHANGED instVars

\* FreeBody that resizes the array to reach an index beyond its end.
FreeBody_Resize(t) ==
    /\ pc[t] = "L121"
    /\ IF index[t] >= Size
       THEN /\ m_structures' =
                   m_structures \o [k \in 1..(index[t] + 1 - Size) |-> nullptr]
            /\ Return(t, 121, handle[t], void)
            /\ UNCHANGED <<hist, refs>>
       ELSE /\ m_structures' = Store(index[t], nullptr)
            /\ Release(index[t])
            /\ Reset(index[t])
            /\ Return(t, 123, handle[t], void)
    /\ Unlock(t)
    /\ UNCHANGED budget
    /\ UNCHANGED nextRes
    /\ UNCHANGED instVars

\* FreeBody that deletes the object of the slot it resets.
FreeBody_Delete(t) ==
    /\ pc[t] = "L121"
    /\ IF index[t] >= Size
       THEN /\ Return(t, 121, handle[t], void)
            /\ UNCHANGED <<m_structures, hist, refs>>
       ELSE /\ m_structures' = Store(index[t], nullptr)
            /\ Release(index[t])
            /\ use_count' = IF At(index[t]) = nullptr
                            THEN use_count
                            ELSE [use_count EXCEPT ![At(index[t])] = 0]
            /\ UNCHANGED held
            /\ Return(t, 123, handle[t], void)
    /\ Unlock(t)
    /\ UNCHANGED budget
    /\ UNCHANGED nextRes
    /\ UNCHANGED instVars

\* lines 121-123.
FreeBody(t) ==
    /\ pc[t] = "L121"
    /\ IF index[t] >= Size
       THEN /\ Return(t, 121, handle[t], void)
            /\ UNCHANGED <<m_structures, hist, refs>>
       ELSE /\ m_structures' = Store(index[t], nullptr)
            /\ Release(index[t])
            /\ Reset(index[t])
            /\ Return(t, 123, handle[t], void)
    /\ Unlock(t)
    /\ UNCHANGED budget
    /\ UNCHANGED nextRes
    /\ UNCHANGED instVars

\* ------------------------------------- GetAll(SmallVectorImpl<T>& handles)
\* The caller passes an empty vector.
GetAllCall(t) ==
    /\ Enter(t, "L129")
    /\ Drop(t)
    /\ UNCHANGED <<m_structures, m_handleMutex, i, index, structure, handle,
                   handles, nextRes, hist>>
    /\ UNCHANGED instVars

\* GetAllLock that starts the scan without the mutex.
GetAllLock_NoLock(t) ==
    /\ pc[t] = "L129"
    /\ pc' = [pc EXCEPT ![t] = "L131"]
    /\ i' = [i EXCEPT ![t] = 0]
    /\ UNCHANGED <<m_structures, m_handleMutex, index, structure, handle,
                   handles, ret, budget, nextRes, hist, refs>>
    /\ UNCHANGED instVars

\* lines 129-130.
GetAllLock(t) ==
    /\ pc[t] = "L129"
    /\ Lock(t)
    /\ pc' = [pc EXCEPT ![t] = "L131"]
    /\ i' = [i EXCEPT ![t] = 0]
    /\ UNCHANGED <<m_structures, index, structure, handle, handles, ret,
                   budget, nextRes, hist, refs>>
    /\ UNCHANGED instVars

\* lines 131-133: one iteration of the scan.
GetAllScan(t) ==
    /\ pc[t] = "L131"
    /\ i[t] < Size
    /\ handles' = [handles EXCEPT ![t] =
                      IF At(i[t]) # nullptr
                      THEN Append(@, MakeHandle(i[t]))
                      ELSE @]
    /\ i' = [i EXCEPT ![t] = i[t] + 1]
    /\ UNCHANGED <<m_structures, m_handleMutex, pc, index, structure, handle,
                   ret, budget, nextRes, hist, refs>>
    /\ UNCHANGED instVars

\* line 134: the scan is over; the caller's vector holds the handles.
GetAllReturn(t) ==
    /\ pc[t] = "L131"
    /\ ~(i[t] < Size)
    /\ Return(t, 134, void, handles[t])
    /\ Unlock(t)
    /\ UNCHANGED budget
    /\ UNCHANGED <<m_structures, nextRes, hist, refs>>
    /\ UNCHANGED instVars

\* ----------------------------------- StaticUnlimitedHandleResource::GetInstance
\* ATOMIC_STATIC(StaticUnlimitedHandleResource, instance): the instance is
\* created on first use behind an atomic pointer, which is read again under
\* a mutex before the object is created.

GetInstanceCall(t) ==
    /\ Enter(t, "L142")
    /\ UNCHANGED <<tableVars, instVars>>

\* GetInstance returns *tmp.
InstanceReturn(t) ==
    /\ pc' = [pc EXCEPT ![t] = "idle"]
    /\ ret' = [ret EXCEPT ![t] = [line |-> 143, arg |-> void, val |-> tmp'[t]]]

\* The first load of the pointer: an instance that is there is returned.
InstanceLoad(t) ==
    /\ pc[t] = "L142"
    /\ IF m_instance = nullptr
       THEN /\ pc' = [pc EXCEPT ![t] = "L142_lock"]
            /\ UNCHANGED <<ret, tmp>>
       ELSE /\ tmp' = [tmp EXCEPT ![t] = m_instance]
            /\ InstanceReturn(t)
    /\ UNCHANGED <<tableVars, budget, m_instance, m_instance_mutex, instances>>

\* The pointer was null: take the mutex of the instance.
InstanceLock(t) ==
    /\ pc[t] = "L142_lock"
    /\ m_instance_mutex = NoThread
    /\ m_instance_mutex' = t
    /\ pc' = [pc EXCEPT ![t] = "L142_reload"]
    /\ UNCHANGED <<tableVars, budget, ret, m_instance, tmp, instances>>

\* InstanceReload without the second load: the object is always created.
InstanceReload_NoCheck(t) ==
    /\ pc[t] = "L142_reload"
    /\ pc' = [pc EXCEPT ![t] = "L142_new"]
    /\ UNCHANGED <<ret, tmp, m_instance_mutex>>
    /\ UNCHANGED <<tableVars, budget, m_instance, instances>>

\* The second load, under the mutex.
InstanceReload(t) ==
    /\ pc[t] = "L142_reload"
    /\ IF m_instance = nullptr
       THEN /\ pc' = [pc EXCEPT ![t] = "L142_new"]
            /\ UNCHANGED <<ret, tmp, m_instance_mutex>>
       ELSE /\ tmp' = [tmp EXCEPT ![t] = m_instance]
            /\ m_instance_mutex' = NoThread
            /\ InstanceReturn(t)
    /\ UNCHANGED <<tableVars, budget, m_instance, instances>>

\* new StaticUnlimitedHandleResource: the storage of a new object.
InstanceNew(t) ==
    /\ pc[t] = "L142_new"
    /\ instances' = Append(instances, FALSE)
    /\ tmp' = [tmp EXCEPT ![t] = Len(instances) + 1]
    /\ pc' = [pc EXCEPT ![t] = "L147"]
    /\ UNCHANGED <<tableVars, budget, ret, m_instance, m_instance_mutex>>

\* line 147: the constructor runs to its end.
InstanceConstruct(t) ==
    /\ pc[t] = "L147"
    /\ instances' = [instances EXCEPT ![tmp[t]] = TRUE]
    /\ pc' = [pc EXCEPT ![t] = "L142_store"]
    /\ UNCHANGED <<tableVars, budget, ret, m_instance, m_instance_mutex, tmp>>

\* The pointer is published, the mutex released, *tmp returned.
InstanceStore(t) ==
    /\ pc[t] = "L142_store"
    /\ m_instance' = tmp[t]
    /\ m_instance_mutex' = NoThread
    /\ tmp' = tmp
    /\ InstanceReturn(t)
    /\ UNCHANGED <<tableVars, budget, instances>>

\* A default-constructed table, no call under way.
InitTable ==
    /\ m_structures = <<>>
    /\ m_handleMutex = NoThread
    /\ pc = [t \in Threads |-> "idle"]
    /\ i = [t \in Threads |-> 0]
    /\ index = [t \in Threads |-> 0]
    /\ structure = [t \in Threads |-> nullptr]
    /\ handle = [t \in Threads |-> NullHandle]
    /\ handles = [t \in Threads |-> <<>>]
    /\ ret = [t \in Threads |-> NoReturn]
    /\ nextRes = 1
    /\ issued = [k \in 0..kIndexMax |-> <<>>]
    /\ recycled = {}
    /\ highWater = 0
    /\ held = [t \in Threads |-> nullptr]
    /\ use_count = [s \in 1..MaxRes |-> 0]
    /\ m_instance = nullptr
    /\ m_instance_mutex = NoThread
    /\ tmp = [t \in Threads |-> nullptr]
    /\ instances = <<>>

Init ==
    /\ InitTable
    /\ budget = [t \in Threads |-> IF t = "t1" THEN Unbounded ELSE 0]

Next ==
    \E t \in Threads :
        \/ AllocateCall(t)
        \/ AllocateLock(t)
        \/ AllocateScan(t)
        \/ AllocateGrow(t)
        \/ \E s \in 0..MaxRes : AllocateRefCall(t, s)
        \/ AllocateRefLock(t)
        \/ AllocateRefScan(t)
        \/ AllocateRefGrow(t)
        \/ \E h \in CallerHandles : GetCall(t, h)
        \/ GetLock(t)
        \/ GetBody(t)
        \/ \E h \in CallerHandles : FreeCall(t, h)
        \/ FreeLock(t)
        \/ FreeBody(t)
        \/ GetAllCall(t)
        \/ GetAllLock(t)
        \/ GetAllScan(t)
        \/ GetAllReturn(t)

\* One thread calls into the table, without end.
Spec == Init /\ [][Next]_vars

\* Two threads call into the table, MaxCalls times each.
InitMT ==
    /\ InitTable
    /\ budget = [t \in Threads |-> IF t \in {"t1", "t2"} THEN MaxCalls ELSE 0]

SpecMT == InitMT /\ [][Next]_vars

\* The steps of thread t under the lock, to the return.
Working(t) ==
    \/ AllocateScan(t)
    \/ AllocateGrow(t)
    \/ AllocateRefScan(t)
    \/ AllocateRefGrow(t)
    \/ GetBody(t)
    \/ FreeBody(t)
    \/ GetAllScan(t)
    \/ GetAllReturn(t)

\* The steps in which thread t takes the mutex.
Locking(t) ==
    \/ AllocateLock(t)
    \/ AllocateRefLock(t)
    \/ GetLock(t)
    \/ FreeLock(t)
    \/ GetAllLock(t)

\* A thread that can run does run, and a thread that finds the mutex free
\* again and again gets it; nothing makes a thread call.
Fairness ==
    \A t \in Threads : WF_vars(Working(t)) /\ SF_vars(Locking(t))

\* Two threads call into the table, fairly scheduled: the first makes
\* MaxCalls calls, the second one call.
InitFair ==
    /\ InitTable
    /\ budget = [t \in Threads |->
                    IF t = "t1" THEN MaxCalls ELSE IF t = "t2" THEN 1 ELSE 0]

SpecFair == InitFair /\ [][Next]_vars /\ Fairness

\* Every thread of Threads calls GetInstance, again and again.
NextStatic ==
    \E t \in Threads :
        \/ GetInstanceCall(t)
        \/ InstanceLoad(t)
        \/ InstanceLock(t)
        \/ InstanceReload(t)
        \/ InstanceNew(t)
        \/ InstanceConstruct(t)
        \/ InstanceStore(t)

InitStatic ==
    /\ InitTable
    /\ budget = [t \in Threads |-> Unbounded]

SpecStatic == InitStatic /\ [][NextStatic]_vars

\* ======================================================================
\* Properties
\* ======================================================================
AllocateOkLines == {75, 82, 93, 99}
AllocateFailLines == {78, 96}
GetLines == {107, 110, 111}
FreeLines == {119, 121, 123}

\* Thread t is inside Allocate (either overload), holding the lock.
InAllocate(t) == pc[t] \in {"L72", "L90"}

\* This step is a return of thread t from Allocate.
AllocateReturns(t) == InAllocate(t) /\ pc'[t] = "idle"

\* This step is a return of thread t from Get.
GetReturns(t) == ret'[t] # ret[t] /\ ret'[t].line \in GetLines

\* This step is a return of thread t from Free.
FreeReturns(t) == ret'[t] # ret[t] /\ ret'[t].line \in FreeLines

Empty == {k \in 0..(Size - 1) : At(k) = nullptr}

Min(S) == CHOOSE k \in S : \A j \in S : k <= j

\* The smallest index whose slot is empty, or the length of the array.
FirstEmpty == IF Empty = {} THEN Size ELSE Min(Empty)

Last(q) == q[Len(q)]

\* C1 (uniqueness): no two handles that a successful Allocate returned and
\* that were not freed since have the same index.
C1_Uniqueness == \A k \in 0..kIndexMax : Len(issued[k]) <= 1

\* C2 (round trip): a Get of a handle that Allocate returned, that was not
\* freed and whose slot was not given out again since, returns the structure
\* which that Allocate installed, and never "not found".
C2_RoundTrip ==
    \A t \in Threads :
        (/\ ret[t].line \in GetLines
         /\ ret[t].arg.type = typeValue
         /\ issued[ret[t].arg.index] # <<>>)
        => /\ ret[t].val = Last(issued[ret[t].arg.index])
           /\ ret[t].val # nullptr

\* C3 (first-fit reuse): a successful Allocate returns the handle of the
\* smallest index whose slot is empty when it runs, or of the length of the
\* array when no slot is empty.
C3_FirstFit ==
    [][\A t \in Threads :
          (AllocateReturns(t) /\ ret'[t].line \in AllocateOkLines)
          => ret'[t].val = Handle(FirstEmpty, typeValue)]_vars

\* C3 witness: Allocate has returned the index of a freed slot below
\* another empty slot.
C3_Witness ==
    \E t \in Threads :
        /\ ret[t].line \in {75, 93}
        /\ \E k \in Empty : k > ret[t].val.index

\* C4 (post-free miss): a Get of a handle whose slot was freed, and not given
\* out again since, returns "not found".
C4_PostFreeMiss ==
    [][\A t \in Threads :
          (/\ GetReturns(t)
           /\ ret'[t].arg.type = typeValue
           /\ ret'[t].arg.index < Size
           /\ issued[ret'[t].arg.index] = <<>>)
          => ret'[t].val = nullptr]_vars

\* C4 witness: Get went as far as the slot of a freed handle and found it
\* empty.
C4_Witness ==
    \E t \in Threads :
        /\ ret[t].line = 111
        /\ ret[t].val = nullptr
        /\ issued[ret[t].arg.index] = <<>>

\* C5 (capacity boundary): with kIndexMax slots occupied Allocate returns
\* the null handle; an Allocate that returns the null handle has not changed
\* the slot array, and no step of Allocate before its return changes it.
C5_CapacityBoundary ==
    [][\A t \in Threads :
          /\ (AllocateReturns(t) /\ Cardinality(Occupied) = kIndexMax)
             => (ret'[t].val = NullHandle /\ m_structures' = m_structures)
          /\ (AllocateReturns(t) /\ ret'[t].val = NullHandle)
             => m_structures' = m_structures
          /\ (InAllocate(t) /\ InAllocate(t)')
             => m_structures' = m_structures]_vars

\* C5 witness: Allocate has failed on a table of kIndexMax occupied slots.
C5_Witness ==
    \E t \in Threads :
        /\ ret[t].line \in AllocateFailLines
        /\ ret[t].val = NullHandle
        /\ Cardinality(Occupied) = kIndexMax

\* C6 (type isolation): for a handle of another type tag Get returns "not
\* found" and Free leaves the slot array as it is, whatever the index.
C6_TypeIsolation ==
    [][\A t \in Threads :
          /\ (GetReturns(t) /\ ret'[t].arg.type # typeValue)
             => ret'[t].val = nullptr
          /\ (FreeReturns(t) /\ ret'[t].arg.type # typeValue)
             => m_structures' = m_structures
          /\ (/\ pc[t] \in {"L120", "L121"}
              /\ pc'[t] # pc[t]
              /\ handle[t].type # typeValue)
             => m_structures' = m_structures]_vars

\* C6 witness: Get and Free have rejected handles of another type whose
\* index is that of an occupied slot.
C6_Witness ==
    \E t \in Threads :
        /\ ret[t].line \in {107, 119}
        /\ ret[t].arg.type = otherType
        /\ ret[t].arg.index \in Occupied

\* The handles of the occupied slots among the first n, in ascending order.
RECURSIVE OccupiedHandles(_)
OccupiedHandles(n) ==
    IF n = 0 THEN <<>>
    ELSE IF At(n - 1) # nullptr
         THEN Append(OccupiedHandles(n - 1), Handle(n - 1, typeValue))
         ELSE OccupiedHandles(n - 1)

\* C7 (enumeration consistency): GetAll yields the handles of the occupied
\* slots in ascending order, and so as many handles as successful Allocates
\* have not been freed.
C7_Enumeration ==
    \A t \in Threads :
        ret[t].line = 134
        => /\ ret[t].val = OccupiedHandles(Size)
           /\ Len(ret[t].val) = Outstanding

\* C8 (singleton): GetInstance creates one object at most, and every call
\* returns that object, its constructor finished.
C8_Singleton ==
    /\ Len(instances) <= 1
    /\ \A t \in Threads :
           ret[t].line = 143
           => /\ ret[t].val = 1
              /\ instances[1]
              /\ m_instance = 1

\* C8 witness: two threads found the pointer null on their first load; one
\* has created the instance and returned it, the other, now under the mutex,
\* is about to load the pointer again.
C8_Witness ==
    \E t, u \in Threads :
        /\ t # u
        /\ ret[t].line = 143
        /\ pc[u] = "L142_reload"
        /\ Len(instances) = 1

\* C9 (index bound): the slot array is never longer than kIndexMax, and no
\* index given out exceeds kIndexMax.
C9_IndexBound ==
    /\ Size <= kIndexMax
    /\ \A t \in Threads :
           ret[t].line \in AllocateOkLines => ret[t].val.index <= kIndexMax

\* C9 witness: the array has reached kIndexMax slots and Allocate has failed
\* rather than grow it.
C9_Witness ==
    /\ Size = kIndexMax
    /\ \E t \in Threads : ret[t].line = 78

\* C10 (the array only grows): no step shortens the slot array; a step of
\* Free leaves its length as it is; the only step that lengthens it is a
\* return of Allocate with no slot empty, and it adds one slot.
C10_OnlyGrows ==
    [][/\ Len(m_structures') >= Len(m_structures)
       /\ \A t \in Threads :
              (pc[t] \in {"idle", "L120", "L121"} /\ FreeReturns(t))
              => Len(m_structures') = Len(m_structures)
       /\ Len(m_structures') # Len(m_structures)
          => /\ Len(m_structures') = Len(m_structures) + 1
             /\ Empty = {}
             /\ \E t \in Threads : AllocateReturns(t)]_vars

\* C10 witness: every slot has been freed and the array has kept its
\* length.
C10_Witness ==
    /\ Size = kIndexMax
    /\ Occupied = {}
    /\ \E t \in Threads : ret[t].line = 123

\* C11 (stale handle on lookup): once an index has been freed and given out
\* again, every Get of a handle of that index, the old one included, answers
\* with the structure of the Allocate that last took the index.
C11_StaleLookup ==
    [][\A t \in Threads :
           (/\ pc[t] = "L109"
            /\ pc'[t] = "idle"
            /\ index[t] \in recycled
            /\ issued[index[t]] # <<>>)
           => /\ ret'[t].line = 111
              /\ ret'[t].val = Last(issued[index[t]])]_vars

\* C11 witness: Get has returned a structure for a handle whose index had
\* been freed and given out again.
C11_Witness ==
    \E t \in Threads :
        /\ ret[t].line = 111
        /\ ret[t].arg.index \in recycled
        /\ ret[t].val # nullptr
        /\ issued[ret[t].arg.index] # <<>>

\* The shared_ptrs that point to object s: the slots, the pointers the
\* callers keep from Get, and the parameters of the calls of
\* Allocate(shared_ptr) under way.
Holders(s) ==
    {<<"slot", k>> : k \in {j \in Occupied : At(j) = s}}
        \cup {<<"held", t>> : t \in {u \in Threads : held[u] = s}}
        \cup {<<"parameter", t>> :
                  t \in {u \in Threads : /\ pc[u] \in {"L88", "L90"}
                                          /\ structure[u] = s}}

\* The objects whose last owner has gone.
Destroyed == {s \in 1..(nextRes - 1) : use_count[s] = 0}

\* C12 (Free detaches, it does not destroy): an object is destroyed only
\* when no slot, no pointer kept from Get and no pointer handed in holds it;
\* a Free that empties a slot takes away one owner of its object, the
\* table, and the pointers the callers keep from Get stay as they are and
\* keep the object alive.
C12_Detach ==
    /\ [](\A s \in Destroyed : Holders(s) = {})
    /\ [][\A t \in Threads :
             (/\ pc[t] = "L121"
              /\ pc'[t] = "idle"
              /\ index[t] < Size
              /\ At(index[t]) # nullptr)
             => LET s == At(index[t]) IN
                /\ use_count'[s] = use_count[s] - 1
                /\ held' = held
                /\ (\E u \in Threads : held[u] = s) => s \notin Destroyed']_vars

\* C12 witness: Free has emptied the slot of an object that its caller
\* still holds from a Get before, and the object is alive in no slot.
C12_Witness ==
    \E t \in Threads :
        /\ ret[t].line = 123
        /\ held[t] # nullptr
        /\ held[t] \notin Destroyed
        /\ \A k \in Occupied : At(k) # held[t]

\* C13 (Free of nothing is a no-op): a Free whose index is beyond the end
\* of the array, or whose slot is empty, returns with the array as it was,
\* in length and in every slot; and every Free that got past the decode
\* leaves a table on which the same Free is such a no-op.
C13_FreeNoOp ==
    [][\A t \in Threads :
           (pc[t] = "L121" /\ pc'[t] = "idle")
           => /\ (index[t] >= Size \/ At(index[t]) = nullptr)
                 => m_structures' = m_structures
              /\ \/ index[t] >= Len(m_structures')
                 \/ m_structures'[index[t] + 1] = nullptr]_vars

\* C13 witness: Free of an index beyond the end of an array that has
\* occupied slots has returned.
C13_Witness ==
    \E t \in Threads :
        /\ ret[t].line = 121
        /\ ret[t].arg.index >= Size
        /\ Occupied # {}

\* This step is a step of thread t inside Get, its call and return included.
GetSteps(t) ==
    \/ pc[t] = "idle" /\ pc'[t] = "L108"
    \/ pc[t] \in {"L108", "L109"} /\ pc'[t] # pc[t]
    \/ GetReturns(t)

\* This step is a step of thread t inside GetAll.
GetAllSteps(t) ==
    \/ pc[t] = "idle" /\ pc'[t] = "L129"
    \/ pc[t] \in {"L129", "L131"} /\ (pc'[t] # pc[t] \/ i'[t] # i[t])

\* C16 (Get and GetAll only read): no step of Get or of GetAll changes the
\* length of the slot array or a slot; the return of Get adds one owner to
\* the object it returns and changes the owners of no other.
C16_ReadOnly ==
    [][\A t \in Threads :
           /\ (GetSteps(t) \/ GetAllSteps(t)) => m_structures' = m_structures
           /\ (pc[t] = "L109" /\ pc'[t] = "idle")
              => use_count' = Count(ret'[t].val, 1)]_vars

\* C16 witness: Get has returned an object, its slot holds it as before and
\* the object has two owners.
C16_Witness ==
    \E t \in Threads :
        /\ ret[t].line = 111
        /\ ret[t].val # nullptr
        /\ At(ret[t].arg.index) = ret[t].val
        /\ use_count[ret[t].val] = Cardinality(Holders(ret[t].val))
        /\ Cardinality(Holders(ret[t].val)) >= 2

\* C17 (Allocate fails only on exhaustion): an Allocate that returns while
\* a slot is empty or the array is shorter than kIndexMax returns the handle
\* of an index below kIndexMax, and that slot then holds what the call
\* installs (the new object, or the pointer passed); an Allocate that
\* returns the null handle found kIndexMax slots, all occupied, and left
\* them alone; a Free that resets a slot leaves an empty slot behind, which
\* is what lets the next Allocate succeed.
C17_FailsOnlyWhenFull ==
    [][\A t \in Threads :
           /\ (AllocateReturns(t) /\ (Empty # {} \/ Size < kIndexMax))
              => /\ ret'[t].line \in AllocateOkLines
                 /\ ret'[t].val.type = typeValue
                 /\ ret'[t].val.index \in 0..(kIndexMax - 1)
                 /\ ret'[t].val.index < Len(m_structures')
                 /\ m_structures'[ret'[t].val.index + 1] =
                        (IF pc[t] = "L72" THEN nextRes ELSE structure[t])
           /\ (AllocateReturns(t) /\ ret'[t].line \in AllocateFailLines)
              => /\ Size = kIndexMax
                 /\ Empty = {}
                 /\ ret'[t].val = NullHandle
                 /\ m_structures' = m_structures
           /\ (pc[t] = "L121" /\ ret'[t].line = 123)
              => \E k \in 1..Len(m_structures') : m_structures'[k] = nullptr]_vars

\* C17 witness: in an array of kIndexMax slots, Allocate has succeeded into
\* a slot that a Free had emptied, and the array is full again.
C17_Witness ==
    \E t \in Threads :
        /\ ret[t].line \in {75, 93}
        /\ ret[t].val.index \in recycled
        /\ Size = kIndexMax
        /\ Empty = {}

\* C18 (high-water mark): the length of the slot array is the largest
\* number of slots that have ever been occupied at once.
C18_HighWater == Size = highWater

\* C20 (stale handle on Free): once an index has been freed and given out
\* again, a Free of any handle of that index, the old one included, empties
\* the slot of the object installed last and the table gives up its share
\* of it; a Get of the index then returns the empty pointer.
C20_StaleFree ==
    [][\A t \in Threads :
           /\ (/\ pc[t] = "L121"
               /\ pc'[t] = "idle"
               /\ index[t] < Size
               /\ index[t] \in recycled
               /\ At(index[t]) # nullptr)
              => /\ ret'[t].line = 123
                 /\ m_structures'[index[t] + 1] = nullptr
                 /\ use_count'[At(index[t])] = use_count[At(index[t])] - 1
                 /\ issued'[index[t]] = <<>>
           /\ (/\ pc[t] = "L109"
               /\ pc'[t] = "idle"
               /\ index[t] < Size
               /\ At(index[t]) = nullptr)
              => ret'[t].val = nullptr]_vars

\* C20 witness: Free of an index that had been freed and given out again
\* has returned, and the slot is empty.
C20_Witness ==
    \E t \in Threads :
        /\ ret[t].line = 123
        /\ ret[t].arg.index \in recycled
        /\ ret[t].arg.index < Size
        /\ At(ret[t].arg.index) = nullptr
        /\ issued[ret[t].arg.index] = <<>>

\* The threads inside a section guarded by std::lock_guard.
Locked ==
    {t \in Threads : pc[t] \in {"L72", "L90", "L109", "L121", "L131"}}

\* C14 (mutual exclusion): a thread inside the guarded section of Allocate,
\* Get, Free or GetAll holds the mutex, so at most one is inside; two
\* threads whose last calls were successful Allocates of one index had a
\* Free of that index between them; and no step changes an occupied slot
\* but the reset of Free.
C14_MutualExclusion ==
    /\ [](/\ \A t \in Locked : m_handleMutex = t
          /\ Cardinality(Locked) <= 1
          /\ \A t, u \in Threads :
                 (/\ t # u
                  /\ ret[t].line \in AllocateOkLines
                  /\ ret[u].line \in AllocateOkLines
                  /\ ret[t].val = ret[u].val)
                 => Len(issued[ret[t].val.index]) < 2)
    /\ [][\A k \in 1..Len(m_structures) :
             (m_structures[k] # nullptr /\ m_structures'[k] # m_structures[k])
             => /\ m_structures'[k] = nullptr
                /\ \E t \in Threads : pc[t] = "L121" /\ index[t] = k - 1]_vars

\* C15 (GetAll is a snapshot): from the first slot GetAll reads to its
\* return no step changes the slot array, whatever the other threads are
\* doing, and what it returns are the handles of the occupied slots of that
\* one array, in ascending order.
C15_Snapshot ==
    [][\A t \in Threads :
           pc[t] = "L131"
           => /\ m_structures' = m_structures
              /\ pc'[t] = "idle"
                 => /\ ret'[t].line = 134
                    /\ ret'[t].val = OccupiedHandles(Size)]_vars

\* C15 witness: GetAll has returned handles to one thread, and another
\* thread has changed the occupancy of the table since.
C15_Witness ==
    \E t \in Threads :
        /\ ret[t].line = 134
        /\ ret[t].val # <<>>
        /\ ret[t].val # OccupiedHandles(Size)
        /\ \E u \in Threads \ {t} : ret[u].line \in {75, 82, 93, 99, 123}

====
